---- MODULE Spec2Model ----
(***************************************************************************)
(* ScanOSINT: the data pipeline of the emergency dashboard                 *)
(* (src/utils/data_processor.py) and the script that drives it             *)
(* (src/main.py).                                                          *)
(*                                                                         *)
(* Numbers.  Python floats are modelled by exact fixed-point integers:     *)
(*   - magnitudes in tenths (mag 6.0 is 60);                               *)
(*   - latitude/longitude in whole degrees;                                *)
(*   - risk scores in units of 1/600 (severity weight in tenths, time      *)
(*     factor in tenths, 1 + population_factor in sixths).  log10 is       *)
(*     taken to its integer part, so population_factor is exact where      *)
(*     affected_population + 1 is a power of ten (and at the cap) and      *)
(*     rounded down to the next sixth elsewhere;                           *)
(*   - datetimes in whole seconds since the epoch, UTC.                    *)
(* The region/type aggregation is also modelled in IEEE-754 doubles (the   *)
(* definitions ending in _f64), for the tables of AggSpec, where the       *)
(* rounding of the scores decides the severity bucket.                     *)
(* Strings that the code transforms (alert levels, severities) are         *)
(* sequences of one-character strings.                                     *)
(***************************************************************************)
EXTENDS Integers, Sequences, FiniteSets, TLC

VARIABLES
    now,            \* wall clock, seconds since the epoch
    rng,            \* state of numpy's global random generator
    cache,          \* st.cache_data entries of the two fetch functions
    pc,             \* position of the dashboard script (src/main.py)
    startedBy,      \* what started the current script run
    requested,      \* per feed: the latest network request since the cache was cleared
    call,           \* what the latest load_disaster_data call did
    disaster_data,  \* main.py:114  disaster_data = load_disaster_data()
    risk_data,      \* main.py:188  risk_data = load_risk_data()
    historical_data,\* main.py:196  historical_data = process_historical_data(..)
    hist_in,        \* argument of the latest data_processor.process_historical_data call
    hist_out,       \* its result
    fn_in,          \* argument of the latest direct call of a pure function
    fn_out          \* its result

vars == <<now, rng, cache, pc, startedBy, requested, call, disaster_data, risk_data,
          historical_data, hist_in, hist_out, fn_in, fn_out>>

(***************************************************************************)
(* Bounds of the model.                                                    *)
(***************************************************************************)
MaxFeatures == 2    \* longest feature list a feed returns
MaxTicks == 2       \* clock advances observed
TickSeconds == 150  \* seconds per clock advance
MaxSeed == 1        \* distinct random generator states
MaxPopulation == 10000000  \* largest affected_population scored directly
MaxGroup == 3       \* most rows of a table aggregated directly

(***************************************************************************)
(* Program constants.                                                      *)
(***************************************************************************)
CacheTtl == 300         \* @st.cache_data(ttl=300)
SyntheticRows == 100    \* size of every np.random draw of the fallback
SecondsPerDay == 86400  \* timedelta(days=1)

StartNow == 10 * SecondsPerDay

Feeds == {"usgs", "gdacs"}

(***************************************************************************)
(* Strings as character sequences; str.capitalize().                       *)
(***************************************************************************)
LowerAlpha == <<"a","b","c","d","e","f","g","h","i","j","k","l","m",
                "n","o","p","q","r","s","t","u","v","w","x","y","z">>
UpperAlpha == <<"A","B","C","D","E","F","G","H","I","J","K","L","M",
                "N","O","P","Q","R","S","T","U","V","W","X","Y","Z">>

IndexIn(alpha, c) ==
    IF \E i \in 1..Len(alpha) : alpha[i] = c
    THEN CHOOSE i \in 1..Len(alpha) : alpha[i] = c
    ELSE 0

ToUpper(c) == IF IndexIn(LowerAlpha, c) > 0 THEN UpperAlpha[IndexIn(LowerAlpha, c)] ELSE c
ToLower(c) == IF IndexIn(UpperAlpha, c) > 0 THEN LowerAlpha[IndexIn(UpperAlpha, c)] ELSE c

\* str.capitalize(): first character upper-cased, the rest lower-cased.
Capitalize(s) ==
    <<>> \o [i \in 1..Len(s) |-> IF i = 1 THEN ToUpper(s[i]) ELSE ToLower(s[i])]

High == <<"H","i","g","h">>
Medium == <<"M","e","d","i","u","m">>
Low == <<"L","o","w">>
Severities == {High, Medium, Low}
Statuses == {"active", "resolved"}

Regions == <<"North America", "South America", "Europe", "Asia", "Africa", "Oceania">>
DisasterTypes == <<"Earthquake", "Hurricane", "Flood", "Wildfire", "Tsunami">>

SeqToSet(s) == {s[i] : i \in 1..Len(s)}

\* A JSON number-or-null.
Num(n) == [null |-> FALSE, v |-> n]
Null == [null |-> TRUE, v |-> 0]

(***************************************************************************)
(* Region classifier.                                                      *)
(***************************************************************************)
\* (the longitude boundaries taken with <= for <)
get_region_inclusive(lat, lon) ==
    IF lat > 15
    THEN IF lon <= -30 THEN "North America"
         ELSE IF lon <= 60 THEN "Europe"
         ELSE "Asia"
    ELSE IF lon <= -30 THEN "South America"
         ELSE IF lon <= 60 THEN "Africa"
         ELSE "Oceania"

get_region_from_coordinates(lat, lon) ==
    IF lat > 15
    THEN IF lon < -30 THEN "North America"
         ELSE IF lon < 60 THEN "Europe"
         ELSE "Asia"
    ELSE IF lon < -30 THEN "South America"
         ELSE IF lon < 60 THEN "Africa"
         ELSE "Oceania"

(***************************************************************************)
(* Risk scorer.                                                            *)
(***************************************************************************)
\* severity_scores = {'High': 1.0, 'Medium': 0.6, 'Low': 0.3}, in tenths
severity_scores == [s \in Severities |-> IF s = High THEN 10 ELSE IF s = Medium THEN 6 ELSE 3]

\* 1.0 if row['status'] == 'active' else 0.5, in tenths
time_factor(status) == IF status = "active" THEN 10 ELSE 5

RECURSIVE ILog10(_)
ILog10(n) == IF n < 10 THEN 0 ELSE 1 + ILog10(n \div 10)

Min(a, b) == IF a <= b THEN a ELSE b

\* (the cap of min(1.0, ...) left out)
population_factor_uncapped(pop) == ILog10(pop + 1)

\* min(1.0, np.log10(affected_population + 1) / 6), in sixths
population_factor(pop) == Min(6, ILog10(pop + 1))

\* The score in units of 1/600, or the KeyError of severity_scores[...].
calculate_risk_score(row) ==
    IF row.severity \notin DOMAIN severity_scores
    THEN [raised |-> TRUE, score |-> 0]
    ELSE [raised |-> FALSE,
          score |-> severity_scores[row.severity] * time_factor(row.status)
                    * (6 + population_factor(row.affected_population))]

(***************************************************************************)
(* Data frames.  A frame is its column set and its rows; a row is a        *)
(* record over the keys of the dict it was built from, and a cell of a     *)
(* column the row has no key for is NaN (pd.DataFrame, pd.concat).         *)
(***************************************************************************)
EmptyFrame == [cols |-> {}, rows |-> <<>>]

UnionKeys(rows) == UNION {DOMAIN rows[i] : i \in 1..Len(rows)}

DataFrame(rows) == [cols |-> UnionKeys(rows), rows |-> rows]

Concat(a, b) == [cols |-> a.cols \cup b.cols, rows |-> a.rows \o b.rows]

IsEmpty(df) == df.rows = <<>> \/ df.cols = {}

Return(df) == [raised |-> FALSE, table |-> df]
Raise == [raised |-> TRUE, table |-> EmptyFrame]

(***************************************************************************)
(* Dates.  Days since 1970-01-01 of a civil date and back (proleptic       *)
(* Gregorian calendar), as datetime computes them.                         *)
(***************************************************************************)
DaysFromCivil(y, m, d) ==
    LET yy == IF m <= 2 THEN y - 1 ELSE y
        era == yy \div 400
        yoe == yy - era * 400
        mp == IF m > 2 THEN m - 3 ELSE m + 9
        doy == (153 * mp + 2) \div 5 + d - 1
        doe == yoe * 365 + yoe \div 4 - yoe \div 100 + doy
    IN  era * 146097 + doe - 719468

\* timestamp.dt.year
YearOf(secs) ==
    LET z == secs \div SecondsPerDay + 719468
        era == z \div 146097
        doe == z - era * 146097
        yoe == (doe - doe \div 1460 + doe \div 36524 - doe \div 146096) \div 365
        doy == doe - (365 * yoe + yoe \div 4 - yoe \div 100)
        mp == (5 * doy + 2) \div 153
        m == IF mp < 10 THEN mp + 3 ELSE mp - 9
    IN  yoe + era * 400 + (IF m <= 2 THEN 1 ELSE 0)

IsLeap(y) == (y % 4 = 0 /\ y % 100 # 0) \/ y % 400 = 0

DaysInMonth(y, m) ==
    IF m = 2 THEN (IF IsLeap(y) THEN 29 ELSE 28)
    ELSE IF m \in {4, 6, 9, 11} THEN 30 ELSE 31

\* datetime.strptime(s, '%Y-%m-%d %H:%M:%S') of the text whose six numbers
\* are d; a text that is no such date raises ValueError.
StrptimeRaises(d) ==
    \/ Len(d) # 6
    \/ d[1] < 1 \/ d[2] \notin 1..12
    \/ d[3] < 1 \/ d[3] > DaysInMonth(d[1], d[2])
    \/ d[4] \notin 0..23 \/ d[5] \notin 0..59 \/ d[6] \notin 0..59

Strptime(d) ==
    DaysFromCivil(d[1], d[2], d[3]) * SecondsPerDay + d[4] * 3600 + d[5] * 60 + d[6]

(***************************************************************************)
(* Seismic feed adapter.                                                   *)
(***************************************************************************)
\* Whether building the event dict of one feature raises (KeyError on an
\* absent key, IndexError on short coordinates, TypeError on a null mag).
UsgsFeatureRaises(f) ==
    \/ "geometry" \notin DOMAIN f
    \/ "coordinates" \notin DOMAIN f.geometry
    \/ Len(f.geometry.coordinates) < 2
    \/ "id" \notin DOMAIN f
    \/ "properties" \notin DOMAIN f
    \/ "mag" \notin DOMAIN f.properties
    \/ f.properties.mag.null
    \/ "time" \notin DOMAIN f.properties
    \/ "felt" \notin DOMAIN f.properties

\* (datetime.now() - datetime.fromtimestamp(ms / 1000)).days
AgeDays(t, ms) == (t - ms \div 1000) \div SecondsPerDay

UsgsEvent(f, t) ==
    LET lat == f.geometry.coordinates[2]
        lon == f.geometry.coordinates[1]
        mag == f.properties.mag.v
        felt == f.properties.felt
    IN  [event_id |-> f.id,
         disaster_type |-> "Earthquake",
         latitude |-> lat,
         longitude |-> lon,
         location |-> get_region_from_coordinates(lat, lon),
         magnitude |-> mag,
         severity |-> IF mag >= 60 THEN High ELSE IF mag >= 40 THEN Medium ELSE Low,
         status |-> IF AgeDays(t, f.properties.time) < 1 THEN "active" ELSE "resolved",
         affected_population |-> IF ~felt.null /\ felt.v # 0 THEN felt.v ELSE 0,
         timestamp |-> f.properties.time \div 1000]

\* The body of the try block.
UsgsTry(resp, t) ==
    IF resp.kind # "ok" THEN Raise
    ELSE IF \E i \in 1..Len(resp.features) : UsgsFeatureRaises(resp.features[i]) THEN Raise
    ELSE Return(DataFrame(<<>> \o [i \in 1..Len(resp.features) |-> UsgsEvent(resp.features[i], t)]))

\* (an except clause that catches the request's errors only)
fetch_usgs_data_narrow(resp, t) ==
    IF resp.kind = "netfail" THEN Return(EmptyFrame) ELSE UsgsTry(resp, t)

\* try: ... except: return pd.DataFrame()
fetch_usgs_data(resp, t) ==
    IF UsgsTry(resp, t).raised THEN Return(EmptyFrame) ELSE UsgsTry(resp, t)

(***************************************************************************)
(* Multi-hazard feed adapter.                                              *)
(***************************************************************************)
GdacsFeatureRaises(f) ==
    \/ "properties" \notin DOMAIN f
    \/ "eventid" \notin DOMAIN f.properties
    \/ "eventtype" \notin DOMAIN f.properties
    \/ "geometry" \notin DOMAIN f
    \/ "coordinates" \notin DOMAIN f.geometry
    \/ Len(f.geometry.coordinates) < 2
    \/ "alertlevel" \notin DOMAIN f.properties
    \/ "alertscore" \notin DOMAIN f.properties
    \/ ("population" \in DOMAIN f.properties /\ f.properties.population.null)
    \/ "fromdate" \notin DOMAIN f.properties
    \/ StrptimeRaises(f.properties.fromdate)

GdacsEvent(f) ==
    LET props == f.properties
    IN  [event_id |-> props.eventid,
         disaster_type |-> props.eventtype,
         latitude |-> f.geometry.coordinates[2],
         longitude |-> f.geometry.coordinates[1],
         severity |-> Capitalize(props.alertlevel),
         status |-> IF props.alertscore > 0 THEN "active" ELSE "resolved",
         affected_population |-> IF "population" \in DOMAIN props
                                 THEN props.population.v ELSE 0,
         timestamp |-> Strptime(props.fromdate)]

GdacsTry(resp) ==
    IF resp.kind # "ok" THEN Raise
    ELSE IF \E i \in 1..Len(resp.features) : GdacsFeatureRaises(resp.features[i]) THEN Raise
    ELSE Return(DataFrame(<<>> \o [i \in 1..Len(resp.features) |-> GdacsEvent(resp.features[i])]))

fetch_gdacs_data(resp) ==
    IF GdacsTry(resp).raised THEN Return(EmptyFrame) ELSE GdacsTry(resp)

(***************************************************************************)
(* Synthetic fallback.  numpy's generator is a deterministic stream read   *)
(* from its current state: draw k of row i, read from state s.             *)
(***************************************************************************)
RandomBits(s, i, k) ==
    IF k = 1 THEN (s + i) * 7 + (s + i) \div 5
    ELSE IF k = 2 THEN (s + i) * 11 + (s + i) \div 6
    ELSE IF k = 3 THEN (s + i) * 13 + (s + i) \div 3
    ELSE IF k = 4 THEN (s + i) * 17 + (s + i) \div 2
    ELSE IF k = 5 THEN (s + i) * 4517
    ELSE IF k = 6 THEN (s + i) * 9203
    ELSE (s + i) * 570857

\* np.random.choice(options, n)[i]
RandomChoice(options, bits) == options[(bits % Len(options)) + 1]

\* np.random.randint(low, high, n)[i]: low <= value < high
RandInt(low, high, bits) == low + (bits % (high - low))

\* np.random.uniform(low, high, n)[i], in whole degrees
RandomUniform(low, high, bits) == low + (bits % (high - low))

SyntheticEvent(s, i, t) ==
    [event_id |-> i + 1,
     disaster_type |-> RandomChoice(DisasterTypes, RandomBits(s, i, 1)),
     location |-> RandomChoice(Regions, RandomBits(s, i, 2)),
     latitude |-> RandomUniform(-90, 90, RandomBits(s, i, 5)),
     longitude |-> RandomUniform(-180, 180, RandomBits(s, i, 6)),
     severity |-> RandomChoice(<<High, Medium, Low>>, RandomBits(s, i, 3)),
     status |-> RandomChoice(<<"active", "resolved">>, RandomBits(s, i, 4)),
     affected_population |-> RandInt(1000, 1000000, RandomBits(s, i, 7)),
     timestamp |-> t - i * SecondsPerDay]

SyntheticFrame(s, t) ==
    DataFrame(<<>> \o [k \in 1..SyntheticRows |-> SyntheticEvent(s, k - 1, t)])

(***************************************************************************)
(* load_disaster_data, given what the two (cached) fetch functions         *)
(* returned, the generator state and the clock.                            *)
(***************************************************************************)
\* (the fallback taken as soon as one feed is empty)
UseFallback_either(usgs_data, gdacs_data) == IsEmpty(usgs_data) \/ IsEmpty(gdacs_data)

\* combined_data.empty
UseFallback(usgs_data, gdacs_data) == IsEmpty(Concat(usgs_data, gdacs_data))

\* combined_data['risk_score'] = combined_data.apply(calculate_risk_score, axis=1)
ApplyRiskScore(df) ==
    IF \E i \in 1..Len(df.rows) : calculate_risk_score(df.rows[i]).raised
    THEN Raise
    ELSE Return([cols |-> df.cols \cup {"risk_score"},
                 rows |-> <<>> \o [i \in 1..Len(df.rows) |->
                             df.rows[i] @@ ("risk_score" :> calculate_risk_score(df.rows[i]).score)]])

load_disaster_data(usgs, gdacs, s, t) ==
    IF usgs.raised \/ gdacs.raised
    THEN [raised |-> TRUE, synthetic |-> FALSE, table |-> EmptyFrame]
    ELSE LET fallback == UseFallback(usgs.table, gdacs.table)
             combined == IF fallback THEN SyntheticFrame(s, t)
                         ELSE Concat(usgs.table, gdacs.table)
             scored == ApplyRiskScore(combined)
         IN  [raised |-> scored.raised, synthetic |-> fallback, table |-> scored.table]

(***************************************************************************)
(* Aggregations.                                                           *)
(***************************************************************************)
RECURSIVE SumRange(_, _, _, _)
SumRange(rows, col, lo, hi) ==
    IF lo > hi THEN 0
    ELSE IF lo = hi THEN rows[lo][col]
    ELSE SumRange(rows, col, lo, (lo + hi) \div 2)
         + SumRange(rows, col, (lo + hi) \div 2 + 1, hi)

SumOf(rows, col) == SumRange(rows, col, 1, Len(rows))

RECURSIVE FlattenRange(_, _, _)
FlattenRange(ss, lo, hi) ==
    IF lo > hi THEN <<>>
    ELSE IF lo = hi THEN ss[lo]
    ELSE FlattenRange(ss, lo, (lo + hi) \div 2) \o FlattenRange(ss, (lo + hi) \div 2 + 1, hi)

\* disaster_data[disaster_data[col] == value]: a NaN cell equals nothing
RowsWhere(rows, col, value) ==
    LET Keep(r) == col \in DOMAIN r /\ r[col] = value
    IN  SelectSeq(rows, Keep)

\* The types looped over for each region.
RiskTypes == DisasterTypes

\* One risk-factor dict; impact_score = mean risk_score * 100 is the
\* fraction impact_num / impact_den.
RiskFactor(region, disaster_type, type_data) ==
    LET total == SumOf(type_data, "risk_score")
        n == Len(type_data)
    IN  [factor |-> <<disaster_type, "Risk">>,
         impact_num |-> total * 100,
         impact_den |-> n * 600,
         severity |-> IF total * 10 > 7 * n * 600 THEN High
                      ELSE IF total * 10 > 4 * n * 600 THEN Medium
                      ELSE Low,
         region |-> region]

\* What one pass of the inner loop appends, for region r and type d.
RiskFactorsOf(rows, r, d) ==
    LET region_data == RowsWhere(rows, "location", Regions[r])
        type_data == RowsWhere(region_data, "disaster_type", RiskTypes[d])
    IN  IF type_data # <<>>
        THEN <<RiskFactor(Regions[r], RiskTypes[d], type_data)>>
        ELSE <<>>

\* The two nested loops, region-major.
RiskFactors(rows) ==
    LET n == Len(RiskTypes)
        passes == <<>> \o [k \in 1..(Len(Regions) * n) |->
                              RiskFactorsOf(rows, ((k - 1) \div n) + 1, ((k - 1) % n) + 1)]
    IN  FlattenRange(passes, 1, Len(passes))

\* load_risk_data, given what its call of load_disaster_data returned.
load_risk_data(dd) ==
    IF dd.raised THEN Raise
    ELSE IF "location" \notin dd.table.cols \/ "disaster_type" \notin dd.table.cols THEN Raise
    ELSE Return(DataFrame(RiskFactors(dd.table.rows)))

\* One row of the historical table; rows are kept as a set (groupby sorts
\* them by key, and no claim reads their order).
HistoricalTrend(rows, year, disaster_type) ==
    LET Keep(r) == YearOf(r.timestamp) = year /\ r.disaster_type = disaster_type
        group == SelectSeq(rows, Keep)
    IN  [year |-> year,
         disaster_type |-> disaster_type,
         affected_population |-> SumOf(group, "affected_population"),
         risk_num |-> SumOf(group, "risk_score"),
         risk_den |-> Len(group) * 600,
         impact_log |-> ILog10(SumOf(group, "affected_population") + 1)]

HistoricalColumns == {"year", "disaster_type", "affected_population", "risk_score", "impact_score"}

\* data_processor.process_historical_data(df), given what its call of
\* load_disaster_data returned.
process_historical_data(df, dd) ==
    IF dd.raised THEN [raised |-> TRUE, cols |-> {}, rows |-> {}]
    ELSE LET rows == dd.table.rows
             keys == {<<YearOf(rows[i].timestamp), rows[i].disaster_type>> : i \in 1..Len(rows)}
         IN  IF keys = {}
             THEN [raised |-> FALSE, cols |-> {"year", "disaster_type", "impact_score"}, rows |-> {}]
             ELSE [raised |-> FALSE, cols |-> HistoricalColumns,
                   rows |-> {HistoricalTrend(rows, k[1], k[2]) : k \in keys}]

\* main.py's own process_historical_data(data): return pd.DataFrame()
main_process_historical_data(data) == EmptyFrame

(***************************************************************************)
(* Binary floating point.  Where a claim turns on a threshold or on an     *)
(* exact equality of scores, the arithmetic of the scorer and of the       *)
(* aggregator is redone in IEEE-754 doubles (Python's float), rounding to  *)
(* nearest, ties to even.  A natural number is its limbs, least            *)
(* significant first, without leading zero limbs; a double is the pair     *)
(* (m, e) of value m * 2^e with m of exactly MantissaBits bits, or m       *)
(* empty for 0.0.  Only finite values >= 0 in the normal range occur.      *)
(***************************************************************************)
LimbBits == 15
LimbBase == 2^LimbBits
MantissaBits == 53

RECURSIVE BigNorm(_)
BigNorm(a) ==
    IF a = <<>> THEN <<>>
    ELSE IF a[Len(a)] = 0 THEN BigNorm(SubSeq(a, 1, Len(a) - 1))
    ELSE a

RECURSIVE BigAddCarry(_, _, _)
BigAddCarry(a, b, c) ==
    IF a = <<>> /\ b = <<>> THEN (IF c = 0 THEN <<>> ELSE <<c>>)
    ELSE LET x == (IF a = <<>> THEN 0 ELSE Head(a)) + (IF b = <<>> THEN 0 ELSE Head(b)) + c
         IN  <<x % LimbBase>>
             \o BigAddCarry(IF a = <<>> THEN <<>> ELSE Tail(a),
                            IF b = <<>> THEN <<>> ELSE Tail(b), x \div LimbBase)

BigAdd(a, b) == BigAddCarry(a, b, 0)

RECURSIVE BigMulCarry(_, _, _)
BigMulCarry(a, s, c) ==
    IF a = <<>> THEN (IF c = 0 THEN <<>> ELSE <<c>>)
    ELSE LET x == Head(a) * s + c
         IN  <<x % LimbBase>> \o BigMulCarry(Tail(a), s, x \div LimbBase)

\* a times the single limb s
BigMulSmall(a, s) == BigNorm(BigMulCarry(a, s, 0))

RECURSIVE BigMul(_, _)
BigMul(a, b) ==
    IF a = <<>> \/ b = <<>> THEN <<>>
    ELSE BigNorm(BigAdd(BigMulSmall(a, Head(b)), <<0>> \o BigMul(a, Tail(b))))

\* quotient and remainder of a by the single limb n > 0
RECURSIVE BigDivRaw(_, _)
BigDivRaw(a, n) ==
    IF a = <<>> THEN [q |-> <<>>, r |-> 0]
    ELSE LET hi == BigDivRaw(Tail(a), n)
             x == hi.r * LimbBase + Head(a)
         IN  [q |-> <<x \div n>> \o hi.q, r |-> x % n]

BigDivSmall(a, n) == [q |-> BigNorm(BigDivRaw(a, n).q), r |-> BigDivRaw(a, n).r]

\* -1, 0 or 1 as a < b, a = b or a > b
RECURSIVE BigCmp(_, _)
BigCmp(a, b) ==
    IF Len(a) # Len(b) THEN (IF Len(a) < Len(b) THEN -1 ELSE 1)
    ELSE IF a = <<>> THEN 0
    ELSE LET c == BigCmp(Tail(a), Tail(b))
         IN  IF c # 0 THEN c
             ELSE IF Head(a) < Head(b) THEN -1
             ELSE IF Head(a) > Head(b) THEN 1
             ELSE 0

\* a * 2^s
BigShl(a, s) ==
    IF a = <<>> THEN <<>>
    ELSE [i \in 1..(s \div LimbBits) |-> 0] \o BigMulSmall(a, 2^(s % LimbBits))

\* floor(a / 2^s), and whether a bit was shifted out
BigShr(a, s) ==
    LET limbs == s \div LimbBits
        kept == IF limbs >= Len(a) THEN <<>> ELSE SubSeq(a, limbs + 1, Len(a))
        d == BigDivSmall(kept, 2^(s % LimbBits))
    IN  [q |-> d.q,
         nz |-> d.r # 0 \/ \E i \in 1..Len(a) : i <= limbs /\ a[i] # 0]

RECURSIVE BitsOf(_)
BitsOf(x) == IF x = 0 THEN 0 ELSE 1 + BitsOf(x \div 2)

\* the bit length of a # 0
BigBits(a) == (Len(a) - 1) * LimbBits + BitsOf(a[Len(a)])

BigOdd(a) == a # <<>> /\ a[1] % 2 = 1

F64Zero == [m |-> <<>>, e |-> 0]

\* The double nearest to (p + f) * 2^x, where 0 < f < 1 if sticky and f = 0
\* otherwise; with sticky, p has more than MantissaBits + 1 bits.
F64Round(p, x, sticky) ==
    IF p = <<>> THEN F64Zero
    ELSE IF BigBits(p) <= MantissaBits
    THEN [m |-> BigShl(p, MantissaBits - BigBits(p)), e |-> x - (MantissaBits - BigBits(p))]
    ELSE LET t == BigBits(p) - MantissaBits
             withGuard == BigShr(p, t - 1)
             q == BigShr(withGuard.q, 1).q
             up == BigOdd(withGuard.q) /\ (withGuard.nz \/ sticky \/ BigOdd(q))
             r == IF up THEN BigAdd(q, <<1>>) ELSE q
         IN  IF BigBits(r) > MantissaBits
             THEN [m |-> BigShr(r, 1).q, e |-> x + t + 1]
             ELSE [m |-> r, e |-> x + t]

\* float(p) / float(n) for integers 0 <= p < LimbBase, 0 < n < LimbBase; with
\* n a power of ten, the double a decimal literal denotes (0.7 is 7, 10)
F64FromRatio(p, n) ==
    LET d == BigDivSmall(BigShl(BigNorm(<<p>>), 5 * LimbBits), n)
    IN  F64Round(d.q, -(5 * LimbBits), d.r # 0)

F64FromInt(k) == F64FromRatio(k, 1)

F64Cmp(a, b) ==
    IF a.m = <<>> \/ b.m = <<>> THEN BigCmp(a.m, b.m)
    ELSE LET e == IF a.e <= b.e THEN a.e ELSE b.e
         IN  BigCmp(BigShl(a.m, a.e - e), BigShl(b.m, b.e - e))

F64Gt(a, b) == F64Cmp(a, b) = 1

F64Min(a, b) == IF F64Cmp(b, a) = -1 THEN b ELSE a

F64Add(a, b) ==
    IF a.m = <<>> THEN b
    ELSE IF b.m = <<>> THEN a
    ELSE LET e == IF a.e <= b.e THEN a.e ELSE b.e
         IN  F64Round(BigAdd(BigShl(a.m, a.e - e), BigShl(b.m, b.e - e)), e, FALSE)

F64Mul(a, b) ==
    IF a.m = <<>> \/ b.m = <<>> THEN F64Zero
    ELSE F64Round(BigMul(a.m, b.m), a.e + b.e, FALSE)

\* a / float(n) for an integer 0 < n < LimbBase
F64DivInt(a, n) ==
    IF a.m = <<>> THEN F64Zero
    ELSE LET d == BigDivSmall(BigShl(a.m, 2 * LimbBits), n)
         IN  F64Round(d.q, a.e - 2 * LimbBits, d.r # 0)

(***************************************************************************)
(* The scorer and the region/type aggregation in doubles.                  *)
(***************************************************************************)
\* {'High': 1.0, 'Medium': 0.6, 'Low': 0.3}
severity_scores_f64 ==
    [s \in Severities |-> IF s = High THEN F64FromRatio(10, 10)
                          ELSE IF s = Medium THEN F64FromRatio(6, 10)
                          ELSE F64FromRatio(3, 10)]

\* The doubles of the literals 1.0, 0.5, 0.7, 0.4 and of the integers 1, 100.
F64One == F64FromRatio(10, 10)
F64Half == F64FromRatio(5, 10)
F64HighAbove == F64FromRatio(7, 10)
F64MediumAbove == F64FromRatio(4, 10)
F64Hundred == F64FromInt(100)

\* 1.0 if row['status'] == 'active' else 0.5
time_factor_f64(status) == IF status = "active" THEN F64One ELSE F64Half

\* np.log10(n) for n a power of ten, where the result is an integer
log10_f64(n) == F64FromInt(ILog10(n))

\* min(1.0, np.log10(affected_population + 1) / 6)
population_factor_f64(pop) == F64Min(F64One, F64DivInt(log10_f64(pop + 1), 6))

\* severity_scores[..] * time_factor * (1 + population_factor)
calculate_risk_score_f64(row) ==
    F64Mul(F64Mul(severity_scores_f64[row.severity], time_factor_f64(row.status)),
           F64Add(F64One, population_factor_f64(row.affected_population)))

ApplyRiskScore_f64(rows) ==
    <<>> \o [i \in 1..Len(rows) |->
                rows[i] @@ ("risk_score" :> calculate_risk_score_f64(rows[i]))]

\* The running sum of a column, first row first (fewer than eight rows).
RECURSIVE F64SumOf(_, _)
F64SumOf(rows, col) ==
    IF rows = <<>> THEN F64Zero
    ELSE F64Add(F64SumOf(SubSeq(rows, 1, Len(rows) - 1), col), rows[Len(rows)][col])

\* type_data['risk_score'].mean()
F64Mean(rows, col) == F64DivInt(F64SumOf(rows, col), Len(rows))

RiskFactor_f64(region, disaster_type, type_data) ==
    LET avg_risk == F64Mean(type_data, "risk_score")
    IN  [factor |-> <<disaster_type, "Risk">>,
         impact_score |-> F64Mul(avg_risk, F64Hundred),
         severity |-> IF F64Gt(avg_risk, F64HighAbove) THEN High
                      ELSE IF F64Gt(avg_risk, F64MediumAbove) THEN Medium
                      ELSE Low,
         region |-> region]

RiskFactorsOf_f64(rows, r, d) ==
    LET region_data == RowsWhere(rows, "location", Regions[r])
        type_data == RowsWhere(region_data, "disaster_type", RiskTypes[d])
    IN  IF type_data # <<>>
        THEN <<RiskFactor_f64(Regions[r], RiskTypes[d], type_data)>>
        ELSE <<>>

RiskFactors_f64(rows) ==
    LET n == Len(RiskTypes)
        passes == <<>> \o [k \in 1..(Len(Regions) * n) |->
                              RiskFactorsOf_f64(rows, ((k - 1) \div n) + 1, ((k - 1) % n) + 1)]
    IN  FlattenRange(passes, 1, Len(passes))

(***************************************************************************)
(* What the two feeds may answer.                                          *)
(***************************************************************************)
UsgsFeature(id, lon, lat, mag, ms, felt) ==
    [id |-> id,
     geometry |-> [coordinates |-> <<lon, lat>>],
     properties |-> [mag |-> mag, time |-> ms, felt |-> felt]]

UsgsSample ==
    << UsgsFeature("us1", -120, 40, Num(65), (StartNow - 3600) * 1000, Num(120)),
       UsgsFeature("us2", -30, 15, Num(40), (StartNow - SecondsPerDay + CacheTtl) * 1000, Null),
       UsgsFeature("us3", 100, -10, Num(39), (StartNow - 5 * SecondsPerDay) * 1000, Num(0)),
       [id |-> "us4",
        geometry |-> [coordinates |-> <<10, 50>>],
        properties |-> [mag |-> Num(52), time |-> (StartNow - 60) * 1000]],
       UsgsFeature("us5", 70, 30, Null, (StartNow - 60) * 1000, Num(3)),
       [id |-> "us6",
        properties |-> [mag |-> Num(45), time |-> (StartNow - 60) * 1000, felt |-> Null]] >>

GdacsFeature(id, type, lon, lat, level, score, date) ==
    [geometry |-> [coordinates |-> <<lon, lat>>],
     properties |-> [eventid |-> id, eventtype |-> type, alertlevel |-> level,
                     alertscore |-> score, fromdate |-> date]]

WithPopulation(f, p) ==
    [f EXCEPT !.properties =
        [k \in (DOMAIN f.properties) \cup {"population"} |->
            IF k = "population" THEN p ELSE f.properties[k]]]

GdacsSample ==
    << WithPopulation(GdacsFeature(1002, "TC", -80, 25, <<"L","O","W">>, 2,
                                   <<1970, 1, 10, 6, 30, 0>>), Num(5000)),
       GdacsFeature(1003, "FL", 20, 5, <<"m","e","d","i","u","m">>, 0,
                    <<1969, 12, 31, 23, 59, 59>>),
       WithPopulation(GdacsFeature(1001, "EQ", 140, 35, <<"G","r","e","e","n">>, 1,
                                   <<1970, 1, 9, 12, 0, 0>>), Num(250)),
       GdacsFeature(1004, "WF", 150, -33, <<"O","r","a","n","g","e">>, 1,
                    <<1970, 13, 1, 0, 0, 0>>),
       [geometry |-> [coordinates |-> <<0, 0>>],
        properties |-> [eventid |-> 1005, eventtype |-> "DR", alertscore |-> 1,
                        fromdate |-> <<1970, 1, 5, 0, 0, 0>>]] >>

\* A feed answers with a run of its sample, or the request fails, or the
\* body is no feature collection.
Responses(sample) ==
    {[kind |-> "netfail", features |-> <<>>], [kind |-> "malformed", features |-> <<>>]}
    \cup UNION {{[kind |-> "ok", features |-> SubSeq(sample, i, j)] :
                    j \in {k \in 0..Len(sample) : i - 1 <= k /\ k <= i - 1 + MaxFeatures}} :
                 i \in 1..Len(sample)}

UsgsResponses == Responses(UsgsSample)
GdacsResponses == Responses(GdacsSample)

\* The few answers met where the clock and the cache are followed.
UsgsFew ==
    {r \in UsgsResponses :
        \/ r.kind = "netfail"
        \/ r.kind = "ok" /\ Len(r.features) = 1 /\ r.features[1].id \in {"us1", "us2"}}

GdacsFew ==
    {r \in GdacsResponses :
        \/ r.kind = "netfail"
        \/ r.kind = "ok" /\ Len(r.features) = 1 /\ r.features[1].properties.eventid \in {1001, 1002}}

(***************************************************************************)
(* The cache of st.cache_data(ttl=300): one entry per fetch function.      *)
(***************************************************************************)
NoResponse == [kind |-> "none", features |-> <<>>]
NoEntry == [present |-> FALSE, at |-> 0, result |-> Return(EmptyFrame)]

\* A stored entry is served while it is younger than the ttl.
CacheHit(entry, t) == entry.present /\ t - entry.at < CacheTtl

\* (a wrapper that stores no empty result)
Cached_nonempty_only(entry, t, result) ==
    IF CacheHit(entry, t) THEN entry
    ELSE [present |-> ~result.raised /\ ~IsEmpty(result.table), at |-> t, result |-> result]

\* The wrapper: the stored value on a hit, else the function's value, stored
\* unless the function raised.
Cached(entry, t, result) ==
    IF CacheHit(entry, t) THEN entry
    ELSE [present |-> ~result.raised, at |-> t, result |-> result]

\* st.cache_data.clear()
ClearedCache == [f \in Feeds |-> NoEntry]

NeverRequested == [f \in Feeds |-> [at |-> -1, result |-> Return(EmptyFrame)]]

NoCall == [made |-> FALSE, at |-> 0, seed |-> 0, fetched |-> {},
           resp |-> [f \in Feeds |-> NoResponse], used |-> ClearedCache,
           out |-> [raised |-> FALSE, synthetic |-> FALSE, table |-> EmptyFrame]]

NoTable == [made |-> FALSE, raised |-> FALSE, table |-> EmptyFrame]
NoHist == [made |-> FALSE, raised |-> FALSE, cols |-> {}, rows |-> {}]

\* One call of load_disaster_data(): both fetches through the cache, then
\* the rest of the function.  The record says what the call did.
LoadCall(respU, respG) ==
    LET usgs == Cached(cache["usgs"], now, fetch_usgs_data(respU, now))
        gdacs == Cached(cache["gdacs"], now, fetch_gdacs_data(respG))
    IN  [made |-> TRUE, at |-> now, seed |-> rng,
         fetched |-> {f \in Feeds : ~CacheHit(cache[f], now)},
         resp |-> [f \in Feeds |-> IF f = "usgs" THEN respU ELSE respG],
         used |-> [f \in Feeds |-> IF f = "usgs" THEN usgs ELSE gdacs],
         out |-> load_disaster_data(usgs.result, gdacs.result, rng, now)]

\* The cache and the generator after that call.
AfterCall(c) ==
    /\ cache' = [f \in Feeds |-> IF c.used[f].present THEN c.used[f] ELSE NoEntry]
    /\ requested' = [f \in Feeds |->
                        IF f \in c.fetched
                        THEN [at |-> c.at, result |-> c.used[f].result]
                        ELSE requested[f]]
    /\ rng' = IF c.out.synthetic THEN (rng + 1) % (MaxSeed + 1) ELSE rng
    /\ call' = c

\* The answers a call can meet: a feed is asked only on a cache miss.
Answers(f, all) == IF CacheHit(cache[f], now) THEN {NoResponse} ELSE all

(***************************************************************************)
(* The dashboard script, src/main.py.                                      *)
(***************************************************************************)
Init ==
    /\ now = StartNow
    /\ rng \in 0..MaxSeed
    /\ cache = ClearedCache
    /\ requested = NeverRequested
    /\ pc = "start"
    /\ startedBy = "open"
    /\ call = NoCall
    /\ disaster_data = NoTable
    /\ risk_data = NoTable
    /\ historical_data = NoTable
    /\ hist_in = EmptyFrame
    /\ hist_out = NoHist
    /\ fn_in = [kind |-> "none"]
    /\ fn_out = [kind |-> "none"]

\* main.py:114  disaster_data = load_disaster_data()
ScriptLoad(U, G) ==
    /\ pc = "start"
    /\ \E respU \in Answers("usgs", U), respG \in Answers("gdacs", G) :
          LET c == LoadCall(respU, respG)
          IN  /\ AfterCall(c)
              /\ disaster_data' = [made |-> TRUE, raised |-> c.out.raised, table |-> c.out.table]
              /\ pc' = IF c.out.raised THEN "idle" ELSE "tab1"
    /\ UNCHANGED <<now, startedBy, risk_data, historical_data, hist_in, hist_out, fn_in, fn_out>>

\* main.py:188  risk_data = load_risk_data()
ScriptRisk(U, G) ==
    /\ pc = "tab1"
    /\ \E respU \in Answers("usgs", U), respG \in Answers("gdacs", G) :
          LET c == LoadCall(respU, respG)
              r == load_risk_data(c.out)
          IN  /\ AfterCall(c)
              /\ risk_data' = [made |-> TRUE, raised |-> r.raised, table |-> r.table]
              /\ pc' = IF r.raised THEN "idle" ELSE "tab2"
    /\ UNCHANGED <<now, startedBy, disaster_data, historical_data, hist_in, hist_out,
                   fn_in, fn_out>>

\* main.py:196  historical_data = process_historical_data(disaster_data)
ScriptHistorical ==
    /\ pc = "tab2"
    /\ historical_data' = [made |-> TRUE, raised |-> FALSE,
                           table |-> main_process_historical_data(disaster_data.table)]
    /\ pc' = "idle"
    /\ UNCHANGED <<now, rng, cache, requested, startedBy, call, disaster_data, risk_data,
                   hist_in, hist_out, fn_in, fn_out>>

\* A new script run starts from nothing but the cache and the generator.
NewRun(by) ==
    /\ pc' = "start"
    /\ startedBy' = by
    /\ call' = NoCall
    /\ disaster_data' = NoTable
    /\ risk_data' = NoTable
    /\ historical_data' = NoTable
    /\ hist_in' = EmptyFrame
    /\ hist_out' = NoHist
    /\ UNCHANGED <<now, rng, fn_in, fn_out>>

\* Any widget interaction: streamlit runs the script again.
Rerun ==
    /\ pc \in {"idle", "called"}
    /\ NewRun("rerun")
    /\ UNCHANGED <<cache, requested>>

\* main.py:61-64  the Reload Data button: clear the cache, run again
Reload ==
    /\ pc \in {"idle", "called"}
    /\ cache' = ClearedCache
    /\ requested' = NeverRequested
    /\ NewRun("reload")

\* data_processor.process_historical_data(df), called with an event table
CallProcessHistorical(U, G) ==
    /\ pc = "idle"
    /\ disaster_data.made
    /\ \E df \in {EmptyFrame, disaster_data.table} :
       \E respU \in Answers("usgs", U), respG \in Answers("gdacs", G) :
          LET c == LoadCall(respU, respG)
              h == process_historical_data(df, c.out)
          IN  /\ AfterCall(c)
              /\ hist_in' = df
              /\ hist_out' = [made |-> TRUE, raised |-> h.raised, cols |-> h.cols, rows |-> h.rows]
    /\ pc' = "called"
    /\ UNCHANGED <<now, startedBy, disaster_data, risk_data, historical_data, fn_in, fn_out>>

\* Time passes.
Tick ==
    /\ now < StartNow + MaxTicks * TickSeconds
    /\ now' = now + TickSeconds
    /\ UNCHANGED <<rng, cache, requested, pc, startedBy, call, disaster_data, risk_data,
                   historical_data, hist_in, hist_out, fn_in, fn_out>>

\* The dashboard over time: script runs, reloads and the clock, with the
\* few answers.
Next ==
    \/ ScriptLoad(UsgsFew, GdacsFew)
    \/ ScriptRisk(UsgsFew, GdacsFew)
    \/ ScriptHistorical
    \/ Rerun
    \/ Reload
    \/ CallProcessHistorical(UsgsFew, GdacsFew)
    \/ Tick

Spec == Init /\ [][Next]_vars

\* One script run from a cold cache at any of the clock's times, with every
\* answer of the feeds.
RunInit ==
    /\ now \in {StartNow + k * TickSeconds : k \in 0..MaxTicks}
    /\ rng \in 0..MaxSeed
    /\ cache = ClearedCache
    /\ requested = NeverRequested
    /\ pc = "start"
    /\ startedBy = "open"
    /\ call = NoCall
    /\ disaster_data = NoTable
    /\ risk_data = NoTable
    /\ historical_data = NoTable
    /\ hist_in = EmptyFrame
    /\ hist_out = NoHist
    /\ fn_in = [kind |-> "none"]
    /\ fn_out = [kind |-> "none"]

RunNext ==
    \/ ScriptLoad(UsgsResponses, GdacsResponses)
    \/ ScriptRisk(UsgsResponses, GdacsResponses)
    \/ ScriptHistorical
    \/ CallProcessHistorical(UsgsResponses, GdacsResponses)

RunSpec == RunInit /\ [][RunNext]_vars

(***************************************************************************)
(* The pure functions called directly, on inputs drawn at the start.       *)
(***************************************************************************)
LatInputs == {-90, 14, 15, 16, 90}
LonInputs == {-180, -31, -30, -29, 0, 59, 60, 61, 180}
PopInputs == {0, 1, 9, 99, 1000, 99999, 999998, 999999, 1000000, MaxPopulation}
SeverityInputs == Severities \cup {<<"G","r","e","e","n">>, <<"h","i","g","h">>}
StatusInputs == Statuses \cup {"unknown"}

FnInputs ==
    {[kind |-> "coords", lat |-> lat, lon |-> lon] : lat \in LatInputs, lon \in LonInputs}
    \cup {[kind |-> "row",
           row |-> [severity |-> sv, status |-> st, affected_population |-> p]] :
            sv \in SeverityInputs, st \in StatusInputs, p \in PopInputs}

FnInit ==
    /\ now = StartNow
    /\ rng = 0
    /\ cache = ClearedCache
    /\ requested = NeverRequested
    /\ pc = "start"
    /\ startedBy = "open"
    /\ call = NoCall
    /\ disaster_data = NoTable
    /\ risk_data = NoTable
    /\ historical_data = NoTable
    /\ hist_in = EmptyFrame
    /\ hist_out = NoHist
    /\ fn_in \in FnInputs
    /\ fn_out = [kind |-> "none"]

FnUnchanged ==
    UNCHANGED <<now, rng, cache, requested, pc, startedBy, call, disaster_data, risk_data,
                historical_data, hist_in, hist_out, fn_in>>

Classify ==
    /\ fn_in.kind = "coords"
    /\ fn_out.kind = "none"
    /\ fn_out' = [kind |-> "region",
                  value |-> get_region_from_coordinates(fn_in.lat, fn_in.lon)]
    /\ FnUnchanged

Score ==
    /\ fn_in.kind = "row"
    /\ fn_out.kind = "none"
    /\ fn_out' = [kind |-> "score",
                  raised |-> calculate_risk_score(fn_in.row).raised,
                  score |-> calculate_risk_score(fn_in.row).score]
    /\ FnUnchanged

FnNext == Classify \/ Score

FnSpec == FnInit /\ [][FnNext]_vars

(***************************************************************************)
(* The region/type aggregation called on scored tables drawn at the        *)
(* start: up to MaxGroup rows of one region, with populations whose        *)
(* log10 is an integer.                                                    *)
(***************************************************************************)
AggPopInputs == {0, 9}
AggTypeInputs == {DisasterTypes[1], DisasterTypes[3]}

AggRows ==
    {[location |-> Regions[4], disaster_type |-> d, severity |-> sv, status |-> st,
      affected_population |-> p] :
        d \in AggTypeInputs, sv \in Severities, st \in Statuses, p \in AggPopInputs}

AggInputs ==
    {[kind |-> "table", rows |-> g] : g \in UNION {[1..n -> AggRows] : n \in 1..MaxGroup}}

AggInit ==
    /\ now = StartNow
    /\ rng = 0
    /\ cache = ClearedCache
    /\ requested = NeverRequested
    /\ pc = "start"
    /\ startedBy = "open"
    /\ call = NoCall
    /\ disaster_data = NoTable
    /\ risk_data = NoTable
    /\ historical_data = NoTable
    /\ hist_in = EmptyFrame
    /\ hist_out = NoHist
    /\ fn_in \in AggInputs
    /\ fn_out = [kind |-> "none"]

\* Lines 129 and 141-154 on the drawn table.
Aggregate ==
    /\ fn_in.kind = "table"
    /\ fn_out.kind = "none"
    /\ LET scored == ApplyRiskScore_f64(fn_in.rows)
       IN  fn_out' = [kind |-> "risk_factors",
                      scored |-> scored,
                      table |-> RiskFactors_f64(scored)]
    /\ FnUnchanged

AggNext == Aggregate

AggSpec == AggInit /\ [][AggNext]_vars

(***************************************************************************)
(* Properties.                                                             *)
(***************************************************************************)
RECURSIVE HasPath(_, _)
HasPath(value, path) ==
    \/ path = <<>>
    \/ /\ Head(path) \in DOMAIN value
       /\ HasPath(value[Head(path)], Tail(path))

\* The fields section 6 of the specification requires of a feature.
RequiredPaths(f) ==
    IF f = "usgs"
    THEN {<<"id">>, <<"geometry", "coordinates">>, <<"properties", "mag">>,
          <<"properties", "time">>}
    ELSE {<<"properties", "eventid">>, <<"properties", "eventtype">>,
          <<"properties", "alertlevel">>, <<"properties", "alertscore">>,
          <<"properties", "fromdate">>, <<"geometry", "coordinates">>}

LacksRequired(f, feature) == \E path \in RequiredPaths(f) : ~HasPath(feature, path)

\* The request failed, the payload is malformed, or a feature lacks a field.
Faulty(f, resp) ==
    \/ resp.kind \in {"netfail", "malformed"}
    \/ \E i \in 1..Len(resp.features) : LacksRequired(f, resp.features[i])

AdapterRows(f) == call.used[f].result.table.rows

\* C1: whenever a feed's request fails, its payload is malformed or a
\* feature lacks a required field, the adapter returns an empty event
\* collection, and it never raises to its caller.
C1_AdaptersSwallowFailures ==
    call.made =>
        \A f \in call.fetched :
            /\ ~call.used[f].result.raised
            /\ Faulty(f, call.resp[f]) => AdapterRows(f) = <<>>

\* C1 witness: a seismic answer of two features, one without its geometry,
\* and a multi-hazard request that failed; both adapters returned nothing.
C1_Witness ==
    /\ call.made
    /\ call.fetched = Feeds
    /\ call.resp["usgs"].kind = "ok"
    /\ Len(call.resp["usgs"].features) = 2
    /\ Faulty("usgs", call.resp["usgs"])
    /\ call.resp["gdacs"].kind = "netfail"
    /\ AdapterRows("usgs") = <<>>
    /\ AdapterRows("gdacs") = <<>>

TenFields ==
    {"event_id", "disaster_type", "latitude", "longitude", "location", "severity",
     "status", "affected_population", "timestamp", "risk_score"}

\* C2: every record of the table load_disaster_data returns carries a
\* defined value for all ten fields, whichever source produced it.
C2_AllTenFieldsDefined ==
    (disaster_data.made /\ ~disaster_data.raised) =>
        \A i \in 1..Len(disaster_data.table.rows) :
            TenFields \subseteq DOMAIN disaster_data.table.rows[i]

\* C3: every record either adapter emits has severity Low, Medium or High,
\* so scoring inside load_disaster_data never fails on an adapter's record.
C3_AdapterSeverityInEnum ==
    call.made =>
        /\ \A f \in Feeds : \A i \in 1..Len(AdapterRows(f)) :
              AdapterRows(f)[i].severity \in Severities
        /\ ~call.out.raised

\* C4: the scorer raises for every record whose severity is outside
\* {High, Medium, Low} and for every record whose status is outside
\* {active, resolved}.
C4_InvalidEnumRaises ==
    (fn_out.kind = "score"
     /\ (fn_in.row.severity \notin Severities \/ fn_in.row.status \notin Statuses))
        => fn_out.raised

\* The region the claim gives for a point.
ClaimedRegion(lat, lon) ==
    CASE lat > 15 /\ lon < -30 -> "North America"
      [] lat > 15 /\ -30 <= lon /\ lon < 60 -> "Europe"
      [] lat > 15 /\ lon >= 60 -> "Asia"
      [] lat <= 15 /\ lon < -30 -> "South America"
      [] lat <= 15 /\ -30 <= lon /\ lon < 60 -> "Africa"
      [] lat <= 15 /\ lon >= 60 -> "Oceania"

\* C5: get_region_from_coordinates returns one of the six regions for every
\* point: north of 15 it is North America, Europe or Asia, elsewhere South
\* America, Africa or Oceania, split at longitudes -30 and 60; longitude -30
\* is Europe/Africa and latitude 15 is southern.
C5_RegionTable ==
    fn_out.kind = "region" =>
        /\ fn_out.value \in SeqToSet(Regions)
        /\ fn_out.value = ClaimedRegion(fn_in.lat, fn_in.lon)
        /\ fn_in.lon = -30 => fn_out.value \in {"Europe", "Africa"}
        /\ fn_in.lat = 15 => fn_out.value \in {"South America", "Africa", "Oceania"}

\* C5 witness: the corner point lat 15, lon -30 was classified as Africa.
C5_Witness ==
    /\ fn_out.kind = "region"
    /\ fn_in.lat = 15
    /\ fn_in.lon = -30
    /\ fn_out.value = "Africa"

\* severity weight times time factor of the claim, in units of 1/100
ClaimedProduct(severity, status) ==
    (IF severity = High THEN 10 ELSE IF severity = Medium THEN 6 ELSE 3)
    * (IF status = "active" THEN 10 ELSE 5)

\* C6: for a record with a valid severity and status the score is the
\* severity weight times the time factor times (1 + population factor):
\* with affected_population 0 it is that product (0.15 for Low/resolved,
\* 1.0 for High/active), and for any population it lies between the product
\* and twice the product, hence between 0.15 and 2.0.  (Scores are in units
\* of 1/600, the product in units of 1/100.)
C6_ScoreFormulaAndRange ==
    (fn_out.kind = "score"
     /\ fn_in.row.severity \in Severities /\ fn_in.row.status \in Statuses)
        => LET product == ClaimedProduct(fn_in.row.severity, fn_in.row.status)
               pop == fn_in.row.affected_population
           IN  /\ ~fn_out.raised
               /\ pop = 0 => fn_out.score = 6 * product
               /\ (pop = 0 /\ fn_in.row.severity = Low /\ fn_in.row.status = "resolved")
                     => fn_out.score = 90
               /\ (pop = 0 /\ fn_in.row.severity = High /\ fn_in.row.status = "active")
                     => fn_out.score = 600
               /\ (pop + 1 = 1000) => fn_out.score = 9 * product
               /\ 6 * product <= fn_out.score
               /\ fn_out.score <= 12 * product
               /\ 90 <= fn_out.score
               /\ fn_out.score <= 1200

\* C6 witness: a High/active record with the largest population scored 2.0.
C6_Witness ==
    /\ fn_out.kind = "score"
    /\ fn_in.row.severity = High
    /\ fn_in.row.status = "active"
    /\ fn_in.row.affected_population = MaxPopulation
    /\ ~fn_out.raised
    /\ fn_out.score = 1200

SyntheticColumns ==
    {"event_id", "disaster_type", "location", "latitude", "longitude", "severity",
     "status", "affected_population", "timestamp"}

\* A row of the fallback's making: it has exactly the fallback's columns
\* (a seismic row has a magnitude, a multi-hazard row has no location).
IsSyntheticRow(r) == (DOMAIN r) \ {"risk_score"} = SyntheticColumns

\* C7: load_disaster_data returns synthetic records if and only if both
\* adapters returned zero rows; the table then has exactly 100 rows with
\* event_id 1..100, populations in [1000, 1000000], valid severity and
\* status, and the row of event_id k is stamped k - 1 days before now.  If an
\* adapter returned a row, the table holds the adapters' rows and no
\* synthetic row.
C7_FallbackIffBothEmpty ==
    (call.made /\ ~call.out.raised) =>
        LET rows == call.out.table.rows
            bothEmpty == AdapterRows("usgs") = <<>> /\ AdapterRows("gdacs") = <<>>
        IN  /\ (\E i \in 1..Len(rows) : IsSyntheticRow(rows[i])) <=> bothEmpty
            /\ bothEmpty =>
                  /\ Len(rows) = 100
                  /\ \A k \in 1..Len(rows) :
                        /\ IsSyntheticRow(rows[k])
                        /\ rows[k].event_id = k
                        /\ rows[k].affected_population >= 1000
                        /\ rows[k].affected_population <= 1000000
                        /\ rows[k].severity \in Severities
                        /\ rows[k].status \in Statuses
                        /\ rows[k].timestamp = call.at - (k - 1) * 86400
            /\ ~bothEmpty =>
                  /\ Len(rows) = Len(AdapterRows("usgs")) + Len(AdapterRows("gdacs"))
                  /\ \A i \in 1..Len(rows) :
                        LET src == IF i <= Len(AdapterRows("usgs"))
                                   THEN AdapterRows("usgs")[i]
                                   ELSE AdapterRows("gdacs")[i - Len(AdapterRows("usgs"))]
                        IN  /\ (DOMAIN rows[i]) \ {"risk_score"} = DOMAIN src
                            /\ rows[i].event_id = src.event_id

\* C7 witness: both feeds failed and the fallback table was returned, its
\* rows reaching both ends of the population range.
C7_Witness ==
    /\ call.made
    /\ ~call.out.raised
    /\ call.fetched = Feeds
    /\ call.resp["usgs"].kind = "netfail"
    /\ call.resp["gdacs"].kind = "malformed"
    /\ Len(call.out.table.rows) = 100
    /\ \E k \in 1..100 : call.out.table.rows[k].affected_population = 1000
    /\ \E k \in 1..100 : call.out.table.rows[k].affected_population = 999999

\* The region of a row, NaN where the row has none.
RowRegion(r) == IF "location" \in DOMAIN r THEN r.location ELSE "NaN"

\* C8: load_risk_data emits exactly one risk-factor record for every
\* (region, disaster_type) pair that occurs in a row of the loaded event
\* table, feed-specific types included, and none for a pair with no row.
C8_OneRecordPerPair ==
    risk_data.made =>
        /\ ~risk_data.raised
        /\ \A i \in 1..Len(call.out.table.rows) :
              LET r == call.out.table.rows[i]
              IN  Cardinality({k \in 1..Len(risk_data.table.rows) :
                                  /\ risk_data.table.rows[k].region = RowRegion(r)
                                  /\ risk_data.table.rows[k].factor[1] = r.disaster_type}) = 1
        /\ \A k \in 1..Len(risk_data.table.rows) :
              \E i \in 1..Len(call.out.table.rows) :
                  /\ RowRegion(call.out.table.rows[i]) = risk_data.table.rows[k].region
                  /\ call.out.table.rows[i].disaster_type = risk_data.table.rows[k].factor[1]

\* C9: process_historical_data, given an empty event table, returns without
\* raising an empty table whose columns are exactly year, disaster_type and
\* impact_score.
C9_EmptyInEmptyOut ==
    (hist_out.made /\ IsEmpty(hist_in)) =>
        /\ ~hist_out.raised
        /\ hist_out.rows = {}
        /\ hist_out.cols = {"year", "disaster_type", "impact_score"}

\* A step that calls load_disaster_data.
LoadStep ==
    \/ pc \in {"start", "tab1"} /\ pc' # pc
    \/ pc = "idle" /\ pc' = "called"

\* C10: for each feed, a load within five minutes of the feed's latest
\* request, with no reload since, issues no request and uses the result of
\* that request, an empty one from a failed fetch included; the first load
\* after the reload button issues a request to both feeds.
C10_CacheReuseAndReload ==
    [][LoadStep =>
        \A f \in Feeds :
            /\ (requested[f].at >= 0 /\ now - requested[f].at < 300) =>
                  /\ f \notin call'.fetched
                  /\ call'.used[f].result = requested[f].result
            /\ (pc = "start" /\ startedBy = "reload") => f \in call'.fetched]_vars

\* C10 witness: a run started by the reload button, at the time of the
\* earlier requests, has made its second load: the first asked both feeds,
\* the seismic request failed, and the second load reused the empty result
\* without asking again.
C10_Witness ==
    /\ startedBy = "reload"
    /\ pc = "tab2"
    /\ now = StartNow
    /\ call.fetched = {}
    /\ requested["usgs"].at = StartNow
    /\ requested["gdacs"].at = StartNow
    /\ cache["usgs"].present
    /\ IsEmpty(cache["usgs"].result.table)

\* The bucket the specification derives from impact_score.
ClaimedBucket(impact_score) ==
    IF F64Gt(impact_score, F64FromInt(70)) THEN High
    ELSE IF F64Gt(impact_score, F64FromInt(40)) THEN Medium
    ELSE Low

\* The scored rows a risk-factor record was computed from.
GroupOf(rec) ==
    LET Keep(r) == r.location = rec.region /\ <<r.disaster_type, "Risk">> = rec.factor
    IN  SelectSeq(fn_out.scored, Keep)

\* C11: every risk-factor record has impact_score equal to 100 times the
\* mean risk_score of the rows of its (region, disaster_type) group, so a
\* group of N identical rows of risk_score R yields 100*R, and its severity
\* is the bucket of that impact_score: High above 70, Medium above 40, Low
\* otherwise, 70 and 40 themselves falling in the lower bucket.
C11_ImpactAndBucket ==
    fn_out.kind = "risk_factors" =>
        \A i \in 1..Len(fn_out.table) :
            LET rec == fn_out.table[i]
                group == GroupOf(rec)
            IN  /\ rec.impact_score = F64Mul(F64Hundred, F64Mean(group, "risk_score"))
                /\ (\A j \in 1..Len(group) : group[j].risk_score = group[1].risk_score)
                      => rec.impact_score = F64Mul(F64Hundred, group[1].risk_score)
                /\ rec.severity = ClaimedBucket(rec.impact_score)

\* A seismic answer whose every feature has the fields section 6 of the
\* specification requires, with a numeric magnitude.
WellFormedUsgs(resp) ==
    /\ resp.kind = "ok"
    /\ \A i \in 1..Len(resp.features) :
           /\ ~LacksRequired("usgs", resp.features[i])
           /\ Len(resp.features[i].geometry.coordinates) >= 2
           /\ ~resp.features[i].properties.mag.null

\* The felt count of a feature, 0 where it is absent, null or 0.
FeltOrZero(feature) ==
    IF "felt" \notin DOMAIN feature.properties THEN 0
    ELSE IF feature.properties.felt.null THEN 0
    ELSE feature.properties.felt.v

\* C12: for a well-formed seismic feed, the adapter returns one record per
\* feature, with affected_population the feature's felt count, and 0 where
\* the feature has no felt property or has it null or 0.
C12_FeltIsOptional ==
    (call.made /\ "usgs" \in call.fetched /\ WellFormedUsgs(call.resp["usgs"])) =>
        /\ Len(AdapterRows("usgs")) = Len(call.resp["usgs"].features)
        /\ \A i \in 1..Len(call.resp["usgs"].features) :
               AdapterRows("usgs")[i].affected_population
                   = FeltOrZero(call.resp["usgs"].features[i])

\* The script run has made both its load_disaster_data() call and its
\* load_risk_data() call, and `call` is still the load made inside the latter.
BothLoaded == disaster_data.made /\ risk_data.made /\ pc \in {"tab2", "idle"}

\* C13: within one script run, with no reload and no cache expiry in
\* between, the load_disaster_data call made inside load_risk_data returns
\* the same rows as the run's own load_disaster_data call, so the
\* risk-factor table is the aggregation of the event table shown, whether
\* the rows come from the feeds or from the synthetic fallback.
C13_RiskFromSameRows ==
    BothLoaded =>
        /\ call.out.raised = disaster_data.raised
        /\ call.out.table = disaster_data.table
        /\ risk_data.raised = load_risk_data(disaster_data).raised
        /\ risk_data.table = load_risk_data(disaster_data).table

====
